---- MODULE Spec2Model ----
(***************************************************************************)
(* HeartBeat Engine: the query orchestration workflow.                     *)
(*                                                                         *)
(* The model follows src/orchestrator: the AgentState record               *)
(* (utils/state.py), the workflow graph and its three routing decisions    *)
(* (agents/heartbeat_orchestrator.py), the three tool nodes and the        *)
(* response synthesizer (nodes/*.py), and the driver process_query.        *)
(*                                                                         *)
(* Seven specifications are defined over the same variables:               *)
(*   SpecDecide  the routing decisions applied, as functions, to every     *)
(*               required_tools value the ToolType enum can build;         *)
(*   SpecTopo    walks over the edges declared by _build_workflow;         *)
(*   SpecPermit  the media permission functions applied to every role,     *)
(*               requester name and query;                                 *)
(*   Spec        process_query running the compiled graph (SpecLive adds   *)
(*               the fairness of the sequential awaits of the driver);     *)
(*   SpecEnv     Spec with the events of the environment: a backend that   *)
(*               never answers, the query deadline passing, the caller     *)
(*               cancelling the call;                                      *)
(*   SpecPair    two process_query calls of one orchestrator, their steps  *)
(*               interleaved;                                              *)
(*   SpecText    _post_process_response applied, character by character,   *)
(*               to every short text and evidence list.                    *)
(***************************************************************************)
EXTENDS Integers, Sequences, FiniteSets, TLC

VARIABLES
    pc,        \* position of the driver: "idle", "running", "awaiting", "returned", "cancelled"
    node,      \* the graph node to execute next, "END", or "aborted"
    state,     \* the AgentState threaded through the nodes
    result,    \* what process_query handed to its caller
    last,      \* the most recent node execution: node, outcome, state before it
    call,      \* SpecDecide/SpecTopo: the decision function applied last
    decision,  \* the value of the conditional edge evaluated last
    visits     \* how many times each graph node has been entered

vars == <<pc, node, state, result, last, call, decision, visits>>

----------------------------------------------------------------------------
(* utils/state.py: the enumerations *)

\* ToolType, name |-> value.  There is no CLIP_RETRIEVAL member.
ToolTypeEnum ==
    [ VECTOR_SEARCH     |-> "vector_search",
      PARQUET_QUERY     |-> "parquet_query",
      CALCULATE_METRICS |-> "calculate_metrics",
      MATCHUP_ANALYSIS  |-> "matchup_analysis",
      VISUALIZATION     |-> "visualization" ]

\* The values a List[ToolType] can hold.
ToolType == { ToolTypeEnum[n] : n \in DOMAIN ToolTypeEnum }

QueryType ==
    { "player_analysis", "team_performance", "game_analysis",
      "matchup_comparison", "tactical_analysis", "statistical_query",
      "general_hockey" }

UserRole == { "coach", "player", "analyst", "staff", "scout" }

\* The exception an attribute lookup on an Enum class raises for a name that
\* is not a member.
AttributeError == "AttributeError"

\* `ToolType.<name>`: the member, or AttributeError.
ToolTypeAttr(name) ==
    IF name \in DOMAIN ToolTypeEnum THEN ToolTypeEnum[name] ELSE AttributeError

----------------------------------------------------------------------------
(* agents/heartbeat_orchestrator.py: the three routing decisions.  Each     *)
(* returns a label of its path map, or the name of the exception it raises. *)

\* any(t in required_tools for t in [PARQUET_QUERY, CALCULATE_METRICS, MATCHUP_ANALYSIS])
NeedsParquet(required_tools) ==
    \E t \in { ToolTypeAttr("PARQUET_QUERY"), ToolTypeAttr("CALCULATE_METRICS"),
               ToolTypeAttr("MATCHUP_ANALYSIS") } : t \in required_tools

\* _route_decision: has_pinecone and has_parquet are computed, then
\* `ToolType.CLIP_RETRIEVAL in required_tools` is evaluated before any branch.
RouteDecision(s) ==
    LET has_pinecone == ToolTypeAttr("VECTOR_SEARCH") \in s.required_tools
        has_parquet  == NeedsParquet(s.required_tools)
        clip_member  == ToolTypeAttr("CLIP_RETRIEVAL")
        has_clips    == clip_member \in s.required_tools
    IN  IF clip_member = AttributeError THEN AttributeError
        ELSE IF has_clips /\ (has_pinecone \/ has_parquet) THEN "clips_and_data"
        ELSE IF has_clips THEN "clips"
        ELSE IF has_pinecone /\ has_parquet THEN "both"
        ELSE IF has_pinecone THEN "pinecone"
        ELSE IF has_parquet THEN "parquet"
        ELSE "synthesis"

\* variant: the decision consults the outcome of the retrieval that just ran
AfterPineconeDecisionOnOutcome(s) ==
    IF s.tool_results # << >> /\ ~s.tool_results[Len(s.tool_results)].success
    THEN "synthesis"
    ELSE IF NeedsParquet(s.required_tools) THEN "parquet" ELSE "synthesis"

\* variant: only PARQUET_QUERY counts as a data tool
AfterPineconeDecisionOneTool(s) ==
    IF ToolTypeAttr("PARQUET_QUERY") \in s.required_tools THEN "parquet" ELSE "synthesis"

\* _after_pinecone_decision
AfterPineconeDecision(s) ==
    IF NeedsParquet(s.required_tools) THEN "parquet" ELSE "synthesis"

\* variant: the two tests in the other order
AfterClipDecisionSwapped(s) ==
    LET needs_parquet  == NeedsParquet(s.required_tools)
        needs_pinecone == ToolTypeAttr("VECTOR_SEARCH") \in s.required_tools
    IN  IF needs_pinecone THEN "pinecone"
        ELSE IF needs_parquet THEN "parquet"
        ELSE "synthesis"

\* _after_clip_decision
AfterClipDecision(s) ==
    LET needs_parquet  == NeedsParquet(s.required_tools)
        needs_pinecone == ToolTypeAttr("VECTOR_SEARCH") \in s.required_tools
    IN  IF needs_parquet THEN "parquet"
        ELSE IF needs_pinecone THEN "pinecone"
        ELSE "synthesis"

----------------------------------------------------------------------------
(* utils/state.py: AgentState and its helpers *)

None == "None"

\* intent_analysis = {}: every `.get` on it yields its default
EmptyIntent == [query_type |-> "", complexity |-> "moderate", requires_context |-> FALSE]

\* analytics_data: the analysis payload that fills the dict ("empty" for none)
\* and the value under its "clips" key, a one-element sequence when present
AnalyticsData(payload, clips) == [payload |-> payload, clips |-> clips]

\* A text: its body, and the citations a trailing "Sources:" line lists, in
\* the order of the line (<< >> when the text has no such line)
Text(body, sources) == [body |-> body, sources |-> sources]

\* len(text.strip()) > 0
NonBlank(text) == text.body # "" \/ text.sources # << >>

\* create_initial_state(user_context, query, query_type)
create_initial_state(user_context, query, query_type) ==
    [ user_context     |-> user_context,
      original_query   |-> query,
      query_type       |-> IF query_type = None THEN "general_hockey" ELSE query_type,
      current_step     |-> "intent_analysis",
      iteration_count  |-> 0,
      intent_analysis  |-> EmptyIntent,
      required_tools   |-> {},
      tool_results     |-> << >>,
      retrieved_context |-> << >>,
      analytics_data   |-> AnalyticsData("empty", << >>),
      evidence_chain   |-> << >>,
      final_response   |-> Text("", << >>),
      error_messages   |-> << >> ]

\* update_state_step
update_state_step(s, step_name) ==
    [s EXCEPT !.current_step = step_name, !.iteration_count = @ + 1]

\* ToolResult(tool_type, success, data, error, citations); execution_time_ms
\* is wall-clock time and is left out.
ToolResult(tool_type, success, data, error, citations) ==
    [ tool_type |-> tool_type, success |-> success, data |-> data,
      error |-> error, citations |-> citations ]

\* variant: the tool of the result is struck off required_tools
add_tool_resultConsuming(s, r) ==
    [s EXCEPT !.tool_results = Append(@, r),
              !.evidence_chain = IF r.citations # << >> THEN @ \o r.citations ELSE @,
              !.required_tools = @ \ { r.tool_type }]

\* add_tool_result: append the result, extend the evidence chain by its citations
add_tool_result(s, r) ==
    [s EXCEPT !.tool_results = Append(@, r),
              !.evidence_chain = IF r.citations # << >> THEN @ \o r.citations ELSE @]

\* add_error: the message is prefixed by a timestamp, left out here
add_error(s, error) ==
    [s EXCEPT !.error_messages = Append(@, error)]

\* len(analytics_data): the number of keys of the payload dict
AnalyticsLen(a) ==
    (IF a.payload = "empty" THEN 0 ELSE 1) + (IF a.clips = << >> THEN 0 ELSE 1)

\* variant: only the retrieved context counts
has_required_dataContextOnly(s) ==
    Len(s.retrieved_context) > 0

\* has_required_data
has_required_data(s) ==
    \/ Len(s.retrieved_context) > 0
    \/ AnalyticsLen(s.analytics_data) > 0
    \/ \E i \in 1..Len(s.tool_results) : s.tool_results[i].success

\* What a node hands back to the graph: the state, and the exception that
\* escaped it (None when it returned).
Returned(s) == [state |-> s, raised |-> None]
Raised(s, e) == [state |-> s, raised |-> e]

----------------------------------------------------------------------------
(* nodes/pinecone_retriever.py and tools/pinecone_mcp_client.py.            *)
(* Relevance scores are in hundredths.  A raw search result is the dict the *)
(* client hands over: `score` and the three metadata entries are the value  *)
(* of the key as a one-element sequence, or Absent when the dict has no     *)
(* such key.                                                                *)

Absent == << >>

\* settings.pinecone.score_threshold = 0.7
ScoreThreshold == 70

\* settings.pinecone.top_k = 5
SettingsTopK == 5

RawResult(id, score, relevance_score, content, source, category) ==
    [ id |-> id, score |-> score, relevance_score |-> relevance_score,
      content |-> content, source |-> source, category |-> category ]

\* _generate_game_event_results: three recaps carrying `relevance_score`
\* (0.85, 0.82, 0.80) and `content` at top level, none in `score`/`metadata`
GameEventResults ==
    << RawResult("recap-2024-25-g20445", Absent, 85, Absent, Absent, Absent),
       RawResult("recap-2024-25-g21301", Absent, 82, Absent, Absent, Absent),
       RawResult("recap-2024-25-g20920", Absent, 80, Absent, Absent, Absent) >>

\* _generate_hockey_knowledge_results
HockeyKnowledgeResults ==
    << RawResult("hockey_context_1", Absent, 88, Absent, Absent, Absent) >>

\* _generate_mock_results: min(top_k, 3) results scored 0.9 - i * 0.1 whose
\* metadata holds a hockey text, source hockey_knowledge, category general
MockResults(top_k) ==
    [ i \in 1..(IF top_k < 3 THEN top_k ELSE 3) |->
        RawResult("mock", << 90 - (i - 1) * 10 >>, 0,
                  << "hockey text" >>, << "hockey_knowledge" >>, << "general" >>) ]

\* _calculate_top_k
CalculateTopK(intent_analysis) ==
    LET k == CASE intent_analysis.complexity = "simple"  -> 3
               [] intent_analysis.complexity = "complex" -> 8
               [] OTHER -> 5
    IN  IF k < SettingsTopK THEN k ELSE SettingsTopK

\* _select_namespace
SelectNamespace(intent_analysis) ==
    IF intent_analysis.query_type \in
         {"player_analysis", "team_performance", "game_analysis", "matchup_comparison"}
    THEN "events"
    ELSE IF intent_analysis.requires_context
            \/ intent_analysis.query_type \in {"tactical_analysis", "general_hockey"}
    THEN "prose"
    ELSE "events"

\* PineconeMCPClient.search_hockey_context: the structured results of the
\* namespace cut to top_k and filtered by relevance_score >= threshold; [] when
\* anything fails inside (outcome "error").  It never raises.
SearchHockeyContext(namespace, top_k, outcome) ==
    IF outcome = "error" THEN << >>
    ELSE LET all == IF namespace = "events" THEN GameEventResults
                    ELSE IF namespace = "prose" THEN HockeyKnowledgeResults
                    ELSE << >>
             cut == SubSeq(all, 1, IF top_k < Len(all) THEN top_k ELSE Len(all))
         IN  SelectSeq(cut, LAMBDA r : r.relevance_score >= ScoreThreshold)

\* _search_context_mcp: the client's results; the mock results when the
\* client call raises (outcome "raise")
SearchContextMcp(intent_analysis, outcome) ==
    IF outcome = "raise"
    THEN MockResults(CalculateTopK(intent_analysis))
    ELSE SearchHockeyContext(SelectNamespace(intent_analysis),
                             CalculateTopK(intent_analysis), outcome)

\* dict.get(key, default) on an entry that may be absent
Get(v, default) == IF v = Absent THEN default ELSE v[1]

\* _is_valid_content: at least 20 characters and a hockey term
IsValidContent(content) == content = "hockey text"

RECURSIVE SortByRelevance(_)
\* list.sort(key=relevance_score, reverse=True): stable, descending
SortByRelevance(seq) ==
    IF seq = << >> THEN << >>
    ELSE LET best == CHOOSE i \in 1..Len(seq) :
                       /\ \A j \in 1..Len(seq) : seq[j].relevance_score <= seq[i].relevance_score
                       /\ \A j \in 1..(i - 1) : seq[j].relevance_score < seq[i].relevance_score
             rest == [ k \in 1..(Len(seq) - 1) |-> IF k < best THEN seq[k] ELSE seq[k + 1] ]
         IN  << seq[best] >> \o SortByRelevance(rest)

\* _process_search_results: results whose result.get("score", 0.0) is below
\* the threshold are skipped, the others formatted, validated and sorted
ProcessSearchResults(search_results) ==
    LET kept == SelectSeq(search_results,
                  LAMBDA r : /\ Get(r.score, 0) >= ScoreThreshold
                             /\ IsValidContent(Get(r.content, "")))
        fmt(r) == [ id |-> r.id,
                    content |-> Get(r.content, ""),
                    source |-> Get(r.source, "hockey_knowledge"),
                    category |-> Get(r.category, "general"),
                    relevance_score |-> Get(r.score, 0) ]
    IN  SortByRelevance([ i \in 1..Len(kept) |-> fmt(kept[i]) ])

RECURSIVE ExtractCitations(_)
\* _extract_citations: "[source:category]" per context, first occurrence only
ExtractCitations(retrieved_context) ==
    IF retrieved_context = << >> THEN << >>
    ELSE LET n    == Len(retrieved_context)
             init == ExtractCitations(SubSeq(retrieved_context, 1, n - 1))
             c    == "[" \o retrieved_context[n].source \o ":"
                         \o retrieved_context[n].category \o "]"
         IN  IF \E i \in 1..Len(init) : init[i] = c THEN init ELSE Append(init, c)

\* _generate_fallback_context
FallbackContext ==
    << [ id |-> "fallback_1", content |-> "hockey text", source |-> "hockey_basics",
         category |-> "rules", relevance_score |-> 80 ],
       [ id |-> "fallback_2", content |-> "hockey text", source |-> "team_info",
         category |-> "team", relevance_score |-> 90 ] >>

\* _handle_unavailable_service: a successful ToolResult over the fallback context
HandleUnavailableService(s) ==
    add_tool_result(
        [s EXCEPT !.retrieved_context = FallbackContext],
        ToolResult(ToolTypeAttr("VECTOR_SEARCH"), TRUE, "fallback_context", None,
                   << "[fallback:hockey_basics]" >>))

\* PineconeRetrieverNode.process, lines 113-125: the except branch
PineconeFailure(s, e) ==
    add_tool_result(
        add_error(s, "Context retrieval failed: " \o e),
        ToolResult(ToolTypeAttr("VECTOR_SEARCH"), FALSE, None, e, << >>))

\* PineconeRetrieverNode.process: index_available is `self.index` being set,
\* outcome the behaviour of the client call ("malformed": the client hands
\* over what _process_search_results cannot read, which raises in the try)
PineconeProcess(s, index_available, outcome) ==
    LET s1 == update_state_step(s, "pinecone_retrieval")
    IN  IF ~index_available THEN Returned(HandleUnavailableService(s1))
        ELSE IF outcome = "malformed" THEN Returned(PineconeFailure(s1, AttributeError))
        ELSE LET search_results    == SearchContextMcp(s1.intent_analysis, outcome)
                 retrieved_context == ProcessSearchResults(search_results)
                 tool_result == ToolResult(ToolTypeAttr("VECTOR_SEARCH"),
                                           Len(retrieved_context) > 0,
                                           "retrieved_context", None,
                                           ExtractCitations(retrieved_context))
             IN  Returned(add_tool_result(
                     [s1 EXCEPT !.retrieved_context = retrieved_context], tool_result))

----------------------------------------------------------------------------
(* nodes/parquet_analyzer.py and tools/parquet_data_client.py *)

TypeError == "TypeError"

\* variant: the client's error dict is handed on as the routine's payload
AnalyzePlayerPerformancePassingError(client) ==
    CASE client = "data"  -> "real_nhl_player_stats"
      [] OTHER            -> "error"

\* _analyze_player_performance: the client's data, the fallback payload when
\* the client reports an error, an error dict when the client call raises
AnalyzePlayerPerformance(client) ==
    CASE client = "data"  -> "real_nhl_player_stats"
      [] client = "error" -> "player_performance_fallback"
      [] OTHER            -> "error"

\* _execute_analytics: only _analyze_player_performance is a coroutine; the
\* other five routines are plain functions whose dict is then awaited, which
\* raises TypeError
ExecuteAnalytics(intent_analysis, client) ==
    IF intent_analysis.query_type = "player_analysis"
    THEN [payload |-> AnalyzePlayerPerformance(client), raised |-> None]
    ELSE [payload |-> "empty", raised |-> TypeError]

\* _generate_citations: "[data_source:analysis_type]" with the defaults
\* parquet_data and analytics for a payload without these keys
GenerateCitations(payload) ==
    CASE payload = "real_nhl_player_stats" -> << "[parquet_data:real_nhl_player_stats]" >>
      [] payload = "player_performance_fallback" ->
                                  << "[fallback_data:player_performance_fallback]" >>
      [] OTHER -> << "[parquet_data:analytics]" >>

\* _handle_unavailable_libraries
HandleUnavailableLibraries(s) ==
    add_error(
        add_tool_result(s, ToolResult(ToolTypeAttr("PARQUET_QUERY"), FALSE, None,
                                      "Analytics libraries not available", << >>)),
        "Parquet analytics unavailable - missing dependencies")

\* variant: the failure handler also stores an error payload and cites it
ParquetFailureStoring(s, e) ==
    add_tool_result(
        [add_error(s, "Analytics query failed: " \o e)
            EXCEPT !.analytics_data = AnalyticsData("error", << >>)],
        ToolResult(ToolTypeAttr("PARQUET_QUERY"), FALSE, None, e,
                   << "[parquet_data:analytics]" >>))

\* ParquetAnalyzerNode.process, lines 127-139: the except branch
ParquetFailure(s, e) ==
    add_tool_result(
        add_error(s, "Analytics query failed: " \o e),
        ToolResult(ToolTypeAttr("PARQUET_QUERY"), FALSE, None, e, << >>))

\* variant: storing the analytics payload also empties the retrieved context
ParquetProcessClearing(s, libs_available, client) ==
    LET s1 == update_state_step(s, "parquet_analysis")
    IN  IF ~libs_available THEN Returned(HandleUnavailableLibraries(s1))
        ELSE LET r == ExecuteAnalytics(s1.intent_analysis, client)
             IN  IF r.raised # None THEN Returned(ParquetFailure(s1, r.raised))
                 ELSE LET analytics_results == AnalyticsData(r.payload, << >>)
                          tool_result == ToolResult(ToolTypeAttr("PARQUET_QUERY"),
                                                    AnalyticsLen(analytics_results) > 0,
                                                    r.payload, None,
                                                    GenerateCitations(r.payload))
                      IN  Returned(add_tool_result(
                              [s1 EXCEPT !.analytics_data = analytics_results,
                                         !.retrieved_context = << >>],
                              tool_result))

\* ParquetAnalyzerNode.process: libs_available is pandas and pyarrow being
\* importable, client the behaviour of the data client call
ParquetProcess(s, libs_available, client) ==
    LET s1 == update_state_step(s, "parquet_analysis")
    IN  IF ~libs_available THEN Returned(HandleUnavailableLibraries(s1))
        ELSE LET r == ExecuteAnalytics(s1.intent_analysis, client)
             IN  IF r.raised # None THEN Returned(ParquetFailure(s1, r.raised))
                 ELSE LET analytics_results == AnalyticsData(r.payload, << >>)
                          tool_result == ToolResult(ToolTypeAttr("PARQUET_QUERY"),
                                                    AnalyticsLen(analytics_results) > 0,
                                                    r.payload, None,
                                                    GenerateCitations(r.payload))
                      IN  Returned(add_tool_result(
                              [s1 EXCEPT !.analytics_data = analytics_results],
                              tool_result))

----------------------------------------------------------------------------
(* nodes/clip_retriever.py *)

\* _generate_citations of the clip node
ClipCitations(clip_results) ==
    IF clip_results = << >> THEN << >>
    ELSE << "[clip_database:clips]", "[players:owner]" >>

\* ClipRetrieverNode.process.  search is the behaviour of the clip index:
\* whether the call raises, and the results otherwise.  Both ToolResult
\* constructions evaluate ToolType.CLIP_RETRIEVAL first; the one in the except
\* branch is outside any handler.
ClipProcess(s, search) ==
    LET s1 == update_state_step(s, "clip_retrieval")
        clip_member == ToolTypeAttr("CLIP_RETRIEVAL")
        e  == IF search.raises THEN "ClipIndexError"
              ELSE IF clip_member = AttributeError THEN AttributeError
              ELSE None
    IN  IF e = None
        THEN Returned(add_tool_result(
                 [s1 EXCEPT !.analytics_data.clips = << search.results >>],
                 ToolResult(clip_member, search.results # << >>, "clips", None,
                            ClipCitations(search.results))))
        ELSE LET s2 == add_error(s1, "Clip retrieval failed: " \o e)
             IN  IF clip_member = AttributeError THEN Raised(s2, AttributeError)
                 ELSE Returned(add_tool_result(
                          s2, ToolResult(clip_member, FALSE, None, e, << >>)))

----------------------------------------------------------------------------
(* nodes/response_synthesizer.py *)

\* The fixed texts
InsufficientDataText == Text("insufficient data", << >>)
FallbackResponseText == Text("fallback apology", << >>)

\* variant: no template; when no tier delivers a text there is none
GenerateResponseNoTemplate(gen) ==
    IF gen.primary = "ok" THEN "sagemaker placeholder"
    ELSE IF gen.secondary \notin {"unavailable", "fail"} THEN gen.secondary
    ELSE None

\* _generate_response: the primary endpoint when one is configured, the
\* OpenAI fallback when a key and the library are there, the template
\* otherwise or when what was tried raised.  gen.primary is "unconfigured",
\* "ok" or "fail"; gen.secondary is "unavailable", "fail", or the kind of
\* content the API returned: "text", "citing" (a text quoting an evidence
\* string), "" or None.
GenerateResponse(gen) ==
    IF gen.primary = "ok" THEN "sagemaker placeholder"
    ELSE IF gen.secondary \notin {"unavailable", "fail"} THEN gen.secondary
    ELSE "template"

\* One call of a tier: whether it raised, and the text it returned
TierCall(tier, raised, text) == [tier |-> tier, raised |-> raised, text |-> text]

\* variant: a secondary tier that raised is called once more
GenerationCallsRetrying(gen) ==
    (IF gen.primary # "unconfigured"
     THEN << TierCall("primary", gen.primary = "fail",
                      IF gen.primary = "fail" THEN None ELSE "sagemaker placeholder") >>
     ELSE << >>)
    \o (IF gen.primary # "ok" /\ gen.secondary # "unavailable"
        THEN IF gen.secondary = "fail"
             THEN << TierCall("secondary", TRUE, gen.secondary),
                     TierCall("secondary", TRUE, gen.secondary) >>
             ELSE << TierCall("secondary", FALSE, gen.secondary) >>
        ELSE << >>)
    \o (IF gen.primary # "ok" /\ gen.secondary \in {"unavailable", "fail"}
        THEN << TierCall("template", FALSE, "template") >>
        ELSE << >>)

\* The calls _generate_response makes, in their order
GenerationCalls(gen) ==
    (IF gen.primary # "unconfigured"
     THEN << TierCall("primary", gen.primary = "fail",
                      IF gen.primary = "fail" THEN None ELSE "sagemaker placeholder") >>
     ELSE << >>)
    \o (IF gen.primary # "ok" /\ gen.secondary # "unavailable"
        THEN << TierCall("secondary", gen.secondary = "fail", gen.secondary) >>
        ELSE << >>)
    \o (IF gen.primary # "ok" /\ gen.secondary \in {"unavailable", "fail"}
        THEN << TierCall("template", FALSE, "template") >>
        ELSE << >>)

\* settings.orchestration.require_citations
RequireCitations == TRUE

\* set(citations)
Elems(seq) == { seq[i] : i \in 1..Len(seq) }

\* The orders in which iterating a set of strings can yield its elements: the
\* order follows the strings' hashes, which differ from one process to the
\* next
SetOrders(S) ==
    { o \in [1..Cardinality(S) -> S] : \A x \in S : \E i \in 1..Cardinality(S) : o[i] = x }

\* variant: no Sources line is added to a blank response
PostProcessResponseUncitedBlank(response, s, order) ==
    LET citations == s.evidence_chain
    IN  IF RequireCitations /\ citations # << >> /\ response \notin {"citing", ""}
        THEN Text(response, order)
        ELSE Text(response, << >>)

\* _post_process_response, for a response that is a string: a Sources line
\* joining set(citations), iterated in `order`, when citations are required,
\* there are some, and none occurs in the response
PostProcessResponse(response, s, order) ==
    LET citations == s.evidence_chain
    IN  IF RequireCitations /\ citations # << >> /\ response # "citing"
        THEN Text(response, order)
        ELSE Text(response, << >>)

\* variant: the insufficient-data outcome is also entered in the error list
HandleInsufficientDataAsError(s) ==
    add_tool_result(
        [add_error(s, "Insufficient data for synthesis")
            EXCEPT !.final_response = InsufficientDataText],
        ToolResult(ToolTypeAttr("PARQUET_QUERY"), FALSE, None,
                   "Insufficient data for synthesis", << >>))

\* _handle_insufficient_data: the fixed text, a failed ToolResult, a logged
\* warning; nothing is added to error_messages
HandleInsufficientData(s) ==
    add_tool_result(
        [s EXCEPT !.final_response = InsufficientDataText],
        ToolResult(ToolTypeAttr("PARQUET_QUERY"), FALSE, None,
                   "Insufficient data for synthesis", << >>))

\* No tier is configured into a synthesis that does not generate
NoGen == [primary |-> "none", secondary |-> "none"]

\* The generation of one execution of process: the behaviour of the tiers and
\* the calls made; no call when the data is insufficient
SynthesisCalls(s, gen) ==
    IF has_required_data(s)
    THEN [gen |-> gen, calls |-> GenerationCalls(gen)]
    ELSE [gen |-> NoGen, calls |-> << >>]

\* ResponseSynthesizerNode.process.  The ToolResult of the try branch is given
\* the evidence list itself as its citations, and add_tool_result extends that
\* list by the citations: by itself.
ResponseSynthesizerProcess(s, gen, order) ==
    LET s1 == update_state_step(s, "response_synthesis")
    IN  IF ~has_required_data(s1)
        THEN Returned(HandleInsufficientData(s1))
        ELSE LET response == GenerateResponse(gen)
             IN  IF response = None
                 THEN \* len(None) raises TypeError in _post_process_response
                      Returned(add_tool_result(
                          [add_error(s1, "Response synthesis failed: " \o TypeError)
                              EXCEPT !.final_response = FallbackResponseText],
                          ToolResult(ToolTypeAttr("PARQUET_QUERY"), FALSE, None,
                                     TypeError, << >>)))
                 ELSE LET final_response == PostProcessResponse(response, s1, order)
                          doubled == s1.evidence_chain \o s1.evidence_chain
                      IN  Returned(
                            [s1 EXCEPT
                               !.final_response = final_response,
                               !.evidence_chain = doubled,
                               !.tool_results = Append(@,
                                   ToolResult(ToolTypeAttr("PARQUET_QUERY"),
                                              NonBlank(final_response),
                                              "response", None, doubled))])

----------------------------------------------------------------------------
(* agents/heartbeat_orchestrator.py: the workflow graph of _build_workflow *)

GraphNodes ==
    { "intent_analysis", "router", "pinecone_retrieval", "parquet_analysis",
      "clip_retrieval", "response_synthesis" }

EntryPoint == "intent_analysis"

\* path map of the conditional edges leaving the router
RouterPaths ==
    [ pinecone       |-> "pinecone_retrieval",
      parquet        |-> "parquet_analysis",
      clips          |-> "clip_retrieval",
      both           |-> "pinecone_retrieval",
      clips_and_data |-> "clip_retrieval",
      synthesis      |-> "response_synthesis" ]

\* path map of the conditional edges leaving pinecone_retrieval
AfterPineconePaths ==
    [ parquet |-> "parquet_analysis", synthesis |-> "response_synthesis" ]

\* variant: the pinecone label of the clip path map leads back to the router
AfterClipPathsBack ==
    [ parquet   |-> "parquet_analysis",
      pinecone  |-> "router",
      synthesis |-> "response_synthesis" ]

\* path map of the conditional edges leaving clip_retrieval
AfterClipPaths ==
    [ parquet   |-> "parquet_analysis",
      pinecone  |-> "pinecone_retrieval",
      synthesis |-> "response_synthesis" ]

Range(f) == { f[x] : x \in DOMAIN f }

\* The nodes an edge of the compiled graph leads to from node n in state s.
\* _route_decision returns no label, so the router's edges are taken label by
\* label; the two other conditional edges are taken by their decisions.
Successors(n, s) ==
    CASE n = "intent_analysis"    -> { "router" }
      [] n = "router"             -> Range(RouterPaths)
      [] n = "pinecone_retrieval" -> { AfterPineconePaths[AfterPineconeDecision(s)] }
      [] n = "parquet_analysis"   -> { "response_synthesis" }
      [] n = "clip_retrieval"     -> { AfterClipPaths[AfterClipDecision(s)] }
      [] n = "response_synthesis" -> { "END" }
      [] OTHER                    -> { }

----------------------------------------------------------------------------
(* Media permissions: nodes/clip_retriever.py, backend/api/routes/clips.py   *)
(* and the player query of nodes/parquet_analyzer.py.  A name is a string    *)
(* in one of its spellings.                                                  *)

\* The spellings of the names in use: lower(), title(), lower() with '_' for
\* ' ', and the short name that is a substring of the name
NameForms ==
    { [lower |-> "nick suzuki",   title |-> "Nick Suzuki",   snake |-> "nick_suzuki",   short |-> "suzuki"],
      [lower |-> "cole caufield", title |-> "Cole Caufield", snake |-> "cole_caufield", short |-> "caufield"],
      [lower |-> "suzuki",        title |-> "Suzuki",        snake |-> "suzuki",        short |-> "suzuki"],
      [lower |-> "caufield",      title |-> "Caufield",      snake |-> "caufield",      short |-> "caufield"],
      [lower |-> "jane doe",      title |-> "Jane Doe",      snake |-> "jane_doe",      short |-> "doe"],
      [lower |-> "",              title |-> "",              snake |-> "",              short |-> ""] }

Form(x) == CHOOSE r \in NameForms : x \in { r.lower, r.title, r.snake }

\* str.lower(), str.title(), and str.replace(' ', '_'), which the code
\* applies to lower-case names only
StrLower(x) == Form(x).lower
StrTitle(x) == Form(x).title
StrSnake(x) == Form(x).snake

\* `needle in hay`, for names
StrContains(hay, needle) == needle \in { hay, Form(hay).short }

\* ClipRetrieverNode.mtl_players, the entries that matter here
MtlPlayers == { "nick suzuki", "cole caufield", "suzuki", "caufield" }

\* ParquetAnalyzerNode._extract_player_names: known_players
KnownPlayers == { "suzuki", "caufield" }

\* ClipRetrieverNode._extract_player_names, on the lower-cased query.  A query
\* is the set of roster entries that occur in it, and whether one of 'my',
\* 'me', 'i ' occurs in it.  The result is list(set(...)): a list without
\* repetitions, its order left open; the set stands for it.
ClipExtractPlayerNames(query, user_context) ==
    LET user_name == StrLower(user_context.name)
        own == IF /\ query.self
                  /\ user_name # ""
                  /\ StrSnake(user_name) \in { StrSnake(q) : q \in MtlPlayers }
               THEN { StrTitle(user_name) } ELSE { }
    IN  own \cup { StrTitle(q) : q \in query.mentions }

\* ClipRetrieverNode._apply_user_permissions: the player_names of the request
\* after filtering
ApplyUserPermissions(player_names, user_context) ==
    LET user_name == StrTitle(user_context.name)
    IN  IF user_context.role = "player"
        THEN IF user_name # "" /\ player_names = { }
             THEN { user_name }
             ELSE IF user_name # "" /\ player_names # { }
             THEN { name \in player_names : StrLower(name) = StrLower(user_name) }
             ELSE player_names
        ELSE player_names

\* ClipIndexManager.search_clips: a clip of `owner` is among the results of a
\* request when the request names no player or names the owner
SearchClipsReturns(player_names, owner) ==
    \/ player_names = { }
    \/ \E name \in player_names : StrLower(name) = StrLower(owner)

\* _user_can_access_clip
UserCanAccessClip(user_context, owner) ==
    IF user_context.role \in { "coach", "analyst", "staff", "scout" } THEN TRUE
    ELSE IF user_context.role = "player"
    THEN StrSnake(StrLower(user_context.name)) = StrSnake(StrLower(owner))
    ELSE FALSE

\* ParquetAnalyzerNode._extract_player_names: str.capitalize() of the known
\* short names that occur in the query
ParquetExtractPlayerNames(query) ==
    { StrTitle(q) : q \in KnownPlayers \cap query.mentions }

\* get_nhl_player_stats: the rows of `owner` are in the data when no player is
\* asked for, or when a name asked for occurs in the owner's name
PlayerStatsReturns(player_names, owner) ==
    \/ player_names = { }
    \/ \E name \in player_names : StrContains(StrLower(owner), StrLower(name))

----------------------------------------------------------------------------
(* The inputs *)

\* user_context: a role and a display name
UserContexts == [ role : UserRole, name : {"Nick Suzuki"} ]

Queries == { "query" }

\* the optional query_type argument of process_query
QueryTypeHints == { None }

Complexities == { "simple", "moderate", "complex" }

\* behaviours of the Pinecone client call: search_hockey_context returns its
\* results, or [] from its own handler; it has no path that raises
McpOutcomes == { "results", "error" }

\* behaviours of the data client call: get_nhl_player_stats returns its data,
\* or an error dict; it has no path that raises
ClientOutcomes == { "data", "error" }

\* behaviours of the clip index
ClipSearches ==
    { [raises |-> TRUE,  results |-> << >>],
      [raises |-> FALSE, results |-> << >>],
      [raises |-> FALSE, results |-> << "clip" >>] }

\* behaviours of the generation tiers.  _call_sagemaker_endpoint is a
\* placeholder that returns a fixed text: a configured primary tier does not
\* raise.
GenOutcomes ==
    [ primary   : {"unconfigured", "ok"},
      secondary : {"unavailable", "fail", "text", "citing", "", None} ]

NoVisits == [ n \in GraphNodes \cup {"END"} |-> 0 ]

\* the record of a node execution: the node, whether it returned or raised,
\* whether its backend call had failed, and the state it was given.
\* deadline tells whether timeout_seconds have passed since process_query
\* began: "ahead", or the step that was in progress when they had.
NodeRun(n, r, backend, before) ==
    [ node |-> n,
      outcome |-> IF r.raised = None THEN "returned" ELSE "raised",
      raised |-> r.raised,
      backend |-> backend,
      gen |-> NoGen,
      calls |-> << >>,
      deadline |-> "ahead",
      before |-> before ]

NoNode(s) ==
    [ node |-> "none", outcome |-> "none", raised |-> None, backend |-> "none",
      gen |-> NoGen, calls |-> << >>, deadline |-> "ahead", before |-> s ]

IdleState == create_initial_state([role |-> "staff", name |-> "Nick Suzuki"], "query", None)

----------------------------------------------------------------------------
(* SpecDecide: the three decisions as functions of the state *)

InitDecide ==
    /\ pc = "idle"
    /\ node = "none"
    /\ \E rt \in SUBSET ToolType : state = [IdleState EXCEPT !.required_tools = rt]
    /\ result = << >>
    /\ last = NoNode(IdleState)
    /\ call = "none"
    /\ decision = "none"
    /\ visits = NoVisits

CallRouteDecision ==
    /\ call' = "_route_decision"
    /\ decision' = RouteDecision(state)
    /\ UNCHANGED <<pc, node, state, result, last, visits>>

CallAfterPineconeDecision ==
    /\ call' = "_after_pinecone_decision"
    /\ decision' = AfterPineconeDecision(state)
    /\ UNCHANGED <<pc, node, state, result, last, visits>>

CallAfterClipDecision ==
    /\ call' = "_after_clip_decision"
    /\ decision' = AfterClipDecision(state)
    /\ UNCHANGED <<pc, node, state, result, last, visits>>

NextDecide == CallRouteDecision \/ CallAfterPineconeDecision \/ CallAfterClipDecision

SpecDecide == InitDecide /\ [][NextDecide]_vars

----------------------------------------------------------------------------
(* SpecTopo: walks over the declared edges, from the entry point *)

InitTopo ==
    /\ pc = "idle"
    /\ node = EntryPoint
    /\ \E rt \in SUBSET ToolType : state = [IdleState EXCEPT !.required_tools = rt]
    /\ result = << >>
    /\ last = NoNode(IdleState)
    /\ call = "none"
    /\ decision = "none"
    /\ visits = [NoVisits EXCEPT ![EntryPoint] = 1]

FollowEdge ==
    /\ \E m \in Successors(node, state) :
         /\ node' = m
         /\ visits' = [visits EXCEPT ![m] = @ + 1]
    /\ last' = [last EXCEPT !.node = node]
    /\ UNCHANGED <<pc, state, result, call, decision>>

NextTopo == FollowEdge

SpecTopo == InitTopo /\ [][NextTopo]_vars

----------------------------------------------------------------------------
(* SpecPermit: the permission functions applied to every requester and query *)

\* display names of requesters, and owners of clips and of personal rows
RequesterNames == { "", "Nick Suzuki", "Jane Doe" }
Owners == { "Nick Suzuki", "Cole Caufield" }

\* the queries: a roster entry that occurs in a query brings along the short
\* name it contains
PermitQueries ==
    { q \in [ self : BOOLEAN, mentions : SUBSET MtlPlayers ] :
        \A m \in q.mentions : Form(m).short \in q.mentions }

InitPermit ==
    /\ pc = "idle"
    /\ node = "none"
    /\ \E role \in UserRole, name \in RequesterNames, q \in PermitQueries :
         state = [IdleState EXCEPT !.user_context = [role |-> role, name |-> name],
                                   !.original_query = q]
    /\ result = << >>
    /\ last = NoNode(IdleState)
    /\ call = "none"
    /\ decision = "none"
    /\ visits = NoVisits

\* _parse_clip_query, then _execute_clip_search up to the request it sends
CallApplyUserPermissions ==
    /\ call' = "_apply_user_permissions"
    /\ LET requested == ClipExtractPlayerNames(state.original_query, state.user_context)
       IN  decision' = [ requested |-> requested,
                         filtered |-> ApplyUserPermissions(requested, state.user_context) ]
    /\ UNCHANGED <<pc, node, state, result, last, visits>>

\* The request of _execute_clip_search and _user_can_access_clip, for a clip
\* of one owner
CallUserCanAccessClip ==
    /\ call' = "_user_can_access_clip"
    /\ \E owner \in Owners :
         LET requested == ClipExtractPlayerNames(state.original_query, state.user_context)
             filtered == ApplyUserPermissions(requested, state.user_context)
         IN  decision' = [ owner |-> owner,
                           requested |-> requested,
                           returned |-> SearchClipsReturns(filtered, owner),
                           granted |-> UserCanAccessClip(state.user_context, owner) ]
    /\ UNCHANGED <<pc, node, state, result, last, visits>>

\* _analyze_player_performance: the players asked of the data client, and the
\* owners whose rows come back
CallAnalyzePlayerPerformance ==
    /\ call' = "_analyze_player_performance"
    /\ LET players == ParquetExtractPlayerNames(state.original_query)
       IN  decision' = [ players |-> players,
                         rows |-> { o \in Owners : PlayerStatsReturns(players, o) } ]
    /\ UNCHANGED <<pc, node, state, result, last, visits>>

NextPermit ==
    CallApplyUserPermissions \/ CallUserCanAccessClip \/ CallAnalyzePlayerPerformance

SpecPermit == InitPermit /\ [][NextPermit]_vars

----------------------------------------------------------------------------
(* Spec: process_query running the compiled graph *)

\* process_query, lines 149-167: the response dict.  It has no "success" key.
ProcessQueryResponse(s) ==
    [ kind |-> "response",
      response |-> s.final_response,
      success |-> Absent,
      error |-> Absent,
      query_type |-> << s.query_type >>,
      evidence_chain |-> s.evidence_chain,
      tool_results |-> s.tool_results,
      errors |-> s.error_messages ]

ApologyText == Text("apology", << >>)

\* variant: the failure dict without the success flag
ProcessQueryExceptNoFlag(e) ==
    [ kind |-> "failure", response |-> ApologyText, success |-> Absent,
      error |-> << e >>, query_type |-> Absent, evidence_chain |-> << >>,
      tool_results |-> << >>, errors |-> << >> ]

\* process_query, lines 172-179: the dict returned by the except branch
ProcessQueryExcept(e) ==
    [ kind |-> "failure", response |-> ApologyText, success |-> << FALSE >>,
      error |-> << e >>, query_type |-> Absent, evidence_chain |-> << >>,
      tool_results |-> << >>, errors |-> << >> ]

Init ==
    /\ pc = "idle"
    /\ node = "none"
    /\ state = IdleState
    /\ result = << >>
    /\ last = NoNode(IdleState)
    /\ call = "none"
    /\ decision = "none"
    /\ visits = NoVisits

\* process_query, lines 134-143: the initial state is built and the graph is
\* invoked at its entry point
ProcessQuery ==
    /\ pc = "idle"
    /\ \E uc \in UserContexts, q \in Queries, h \in QueryTypeHints :
         /\ state' = create_initial_state(uc, q, h)
         /\ last' = NoNode(create_initial_state(uc, q, h))
    /\ pc' = "running"
    /\ node' = EntryPoint
    /\ UNCHANGED <<result, call, decision, visits>>

\* A node has run with outcome r and the generation `generation`:
\* the state it leaves, and the next position, `next` when it returned
RanCalling(n, r, backend, next, generation) ==
    /\ state' = r.state
    /\ last' = [NodeRun(n, r, backend, state) EXCEPT
                  !.gen = generation.gen, !.calls = generation.calls,
                  !.deadline = last.deadline]
    /\ visits' = [visits EXCEPT ![n] = @ + 1]
    /\ node' = IF r.raised = None THEN next ELSE "aborted"

Ran(n, r, backend, next) ==
    RanCalling(n, r, backend, next, [gen |-> NoGen, calls |-> << >>])

\* IntentAnalyzerNode.process: the step is recorded and the descriptor the
\* classifier built fills query_type, intent_analysis and required_tools
IntentAnalyzerProcess(s, intent) ==
    [update_state_step(s, "intent_analysis") EXCEPT
        !.query_type = intent.query_type,
        !.required_tools = intent.required_tools,
        !.intent_analysis = [query_type |-> intent.query_type,
                             complexity |-> intent.complexity,
                             requires_context |-> intent.requires_context]]

\* IntentAnalyzerNode.process with any descriptor the classifier can build;
\* it does not raise; then the edge to the router
IntentAnalysisNode ==
    /\ pc = "running" /\ node = "intent_analysis"
    /\ \E qt \in QueryType, rt \in SUBSET ToolType, cx \in Complexities, rc \in BOOLEAN :
         Ran("intent_analysis",
             Returned(IntentAnalyzerProcess(
                 state, [query_type |-> qt, required_tools |-> rt,
                         complexity |-> cx, requires_context |-> rc])),
             "none", "router")
    /\ UNCHANGED <<pc, result, call, decision>>

\* RouterNode.process: the router records its step and reads the state
RouterNodeProcess(s) == update_state_step(s, "router")

\* RouterNode.process, then the conditional edge: _route_decision is
\* evaluated on the state the node returned
RouterNode ==
    /\ pc = "running" /\ node = "router"
    /\ LET s1 == RouterNodeProcess(state)
           d  == RouteDecision(s1)
       IN  /\ decision' = d
           /\ call' = "_route_decision"
           /\ IF d \in DOMAIN RouterPaths
              THEN Ran("router", Returned(s1), "none", RouterPaths[d])
              ELSE Ran("router", Raised(s1, d), "none", "aborted")
    /\ UNCHANGED <<pc, result>>

\* RouterNode.process, then the router's path map applied to one of its
\* labels.  _route_decision returns none of them; this dispatches each, so
\* that the nodes behind the router run.
RouterEdge ==
    /\ pc = "running" /\ node = "router"
    /\ \E label \in DOMAIN RouterPaths :
         /\ decision' = label
         /\ Ran("router", Returned(RouterNodeProcess(state)), "none",
                RouterPaths[label])
    /\ call' = "path_map"
    /\ UNCHANGED <<pc, result>>

\* _pinecone_retrieval_node, then the conditional edge _after_pinecone_decision
PineconeRetrievalNode ==
    /\ pc = "running" /\ node = "pinecone_retrieval"
    /\ \E index_available \in BOOLEAN, outcome \in McpOutcomes :
         LET r == PineconeProcess(state, index_available, outcome)
             d == AfterPineconeDecision(r.state)
         IN  /\ Ran("pinecone_retrieval", r,
                    IF index_available /\ outcome = "results" THEN "ok" ELSE "failed",
                    AfterPineconePaths[d])
             /\ decision' = d
    /\ call' = "_after_pinecone_decision"
    /\ UNCHANGED <<pc, result>>

\* _parquet_analysis_node, then the edge to response_synthesis
ParquetAnalysisNode ==
    /\ pc = "running" /\ node = "parquet_analysis"
    /\ \E libs_available \in BOOLEAN, client \in ClientOutcomes :
         Ran("parquet_analysis", ParquetProcess(state, libs_available, client),
             IF libs_available /\ client = "data" THEN "ok" ELSE "failed",
             "response_synthesis")
    /\ UNCHANGED <<pc, result, call, decision>>

\* _clip_retrieval_node, then the conditional edge _after_clip_decision
ClipRetrievalNode ==
    /\ pc = "running" /\ node = "clip_retrieval"
    /\ \E search \in ClipSearches :
         LET r == ClipProcess(state, search)
             d == AfterClipDecision(r.state)
         IN  /\ Ran("clip_retrieval", r, IF search.raises THEN "failed" ELSE "ok",
                    AfterClipPaths[d])
             /\ decision' = IF r.raised = None THEN d ELSE decision
             /\ call' = IF r.raised = None THEN "_after_clip_decision" ELSE call
    /\ UNCHANGED <<pc, result>>

\* _response_synthesis_node, then the edge to END
ResponseSynthesisNode ==
    /\ pc = "running" /\ node = "response_synthesis"
    /\ \E gen \in GenOutcomes, order \in SetOrders(Elems(state.evidence_chain)) :
         RanCalling("response_synthesis", ResponseSynthesizerProcess(state, gen, order),
                    "none", "END", SynthesisCalls(state, gen))
    /\ UNCHANGED <<pc, result, call, decision>>

\* process_query, lines 143-170: ainvoke returned; the response is returned
Respond ==
    /\ pc = "running" /\ node = "END"
    /\ result' = Append(result, ProcessQueryResponse(state))
    /\ pc' = "returned"
    /\ UNCHANGED <<node, state, last, call, decision, visits>>

\* variant: the handler raises again, and nothing is returned
HandleExceptionReraise ==
    /\ pc = "running" /\ node = "aborted"
    /\ pc' = "raised"
    /\ UNCHANGED <<node, state, result, last, call, decision, visits>>

\* process_query, lines 172-179: the exception that left ainvoke is caught
HandleException ==
    /\ pc = "running" /\ node = "aborted"
    /\ result' = Append(result, ProcessQueryExcept(last.raised))
    /\ pc' = "returned"
    /\ UNCHANGED <<node, state, last, call, decision, visits>>

Next ==
    \/ ProcessQuery
    \/ IntentAnalysisNode
    \/ RouterNode
    \/ RouterEdge
    \/ PineconeRetrievalNode
    \/ ParquetAnalysisNode
    \/ ClipRetrievalNode
    \/ ResponseSynthesisNode
    \/ Respond
    \/ HandleException

Spec == Init /\ [][Next]_vars

\* The driver awaits each step in turn: a step that can run does run.
SpecLive == Spec /\ WF_vars(Next)

----------------------------------------------------------------------------
(* SpecEnv: process_query and the events of its environment *)

\* OrchestrationConfig: the iteration limit and the two timeouts, at their
\* defaults.  No code reads any of them.
max_iterations == 10
timeout_seconds == 30
tool_timeout_seconds == 15

\* The steps that await an external call: the tool nodes and the synthesis
ToolNodes == { "pinecone_retrieval", "parquet_analysis", "clip_retrieval" }

AwaitingNodes == ToolNodes \cup { "response_synthesis" }

\* PineconeRetrieverNode.process, lines 72-91, with a backend that never
\* answers: the step is recorded and the client call is awaited.  The await
\* is bounded by nothing, so the node is still suspended in it once
\* tool_timeout_seconds have passed, and stays so.
PineconeBackendHangs ==
    /\ pc = "running" /\ node = "pinecone_retrieval"
    /\ pc' = "awaiting"
    /\ state' = update_state_step(state, "pinecone_retrieval")
    /\ last' = [NoNode(state) EXCEPT
                  !.node = "pinecone_retrieval", !.outcome = "suspended",
                  !.backend = "hangs", !.deadline = last.deadline]
    /\ visits' = [visits EXCEPT !["pinecone_retrieval"] = @ + 1]
    /\ UNCHANGED <<node, result, call, decision>>

\* process_query, lines 134-147, when timeout_seconds have passed since
\* start_time while a tool step is awaited, before response_synthesis:
\* ainvoke is awaited without a bound and the driver does not look at the
\* clock, so the run goes on as it was.
QueryTimeoutElapses ==
    /\ pc = "running"
    /\ node \in ToolNodes
    /\ last.deadline = "ahead"
    /\ last' = [last EXCEPT !.deadline = node]
    /\ UNCHANGED <<pc, node, state, result, call, decision, visits>>

\* variant: the driver catches the cancellation as it catches exceptions
CancelCaught ==
    /\ \/ pc = "running" /\ node \in AwaitingNodes
       \/ pc = "awaiting"
    /\ last' = [NoNode(state) EXCEPT
                  !.node = node, !.outcome = "cancelled",
                  !.raised = "CancelledError", !.deadline = last.deadline]
    /\ result' = Append(result, ProcessQueryExcept("CancelledError"))
    /\ pc' = "returned"
    /\ UNCHANGED <<node, state, call, decision, visits>>

\* The caller cancels its call of process_query while a node awaits its
\* external call.  CancelledError is raised at the await; it is not an
\* Exception, so neither the node's handler (`except Exception`, e.g.
\* pinecone_retriever.py:113) nor the driver's (heartbeat_orchestrator.py:172)
\* catches it: it leaves process_query, whose local state is dropped, and
\* nothing is returned.
Cancel ==
    /\ \/ pc = "running" /\ node \in AwaitingNodes
       \/ pc = "awaiting"
    /\ last' = [NoNode(state) EXCEPT
                  !.node = node, !.outcome = "cancelled",
                  !.raised = "CancelledError", !.deadline = last.deadline]
    /\ state' = IdleState
    /\ node' = "none"
    /\ pc' = "cancelled"
    /\ UNCHANGED <<result, call, decision, visits>>

NextEnv ==
    \/ Next
    \/ PineconeBackendHangs
    \/ QueryTimeoutElapses
    \/ Cancel

SpecEnv == Init /\ [][NextEnv]_vars

----------------------------------------------------------------------------
(* SpecPair: two process_query calls of one orchestrator, interleaved at   *)
(* their awaits.  The backends behave the same way for both calls, except  *)
(* the generation backend.  Python lists are objects: the lists that       *)
(* add_tool_result and add_error change in place are kept apart from the   *)
(* AgentState that names them.  In SpecPair pc, node, result and decision  *)
(* hold one value per call, state holds the two AgentStates and the list   *)
(* objects, and call holds the arguments and the backends.                 *)

Calls == 1..2

\* The lists of an AgentState that are changed in place: tool_results and
\* evidence_chain by add_tool_result, error_messages by add_error
ListFields == { "tool_results", "evidence_chain", "error_messages" }

\* variant: the lists are built once, and the state of every call names them
SharedLists(c) ==
    [ f \in ListFields |-> <<0, f>> ]

\* create_initial_state: the list displays are evaluated in the call, so the
\* state of call c names lists of its own
NewLists(c) ==
    [ f \in ListFields |-> <<c, f>> ]

ListObjects == { <<c, f>> : c \in {0} \cup Calls, f \in ListFields }

\* An AgentState with the contents of the lists it names, and back
Deref(s, lists) ==
    [s EXCEPT !.tool_results = lists[@], !.evidence_chain = lists[@],
              !.error_messages = lists[@]]

Naming(s, names) ==
    [s EXCEPT !.tool_results = names.tool_results,
              !.evidence_chain = names.evidence_chain,
              !.error_messages = names.error_messages]

\* The arguments of a call
PairQueries == { "hello", "suzuki stats" }

PairInputs ==
    [ query : PairQueries,
      user_context : { uc \in UserContexts : uc.role \in {"analyst", "player"} } ]

\* The classifier: a function of the query text and the identity
Classify(query, user_context) ==
    IF query = "suzuki stats"
    THEN [ query_type |-> "player_analysis", complexity |-> "simple",
           requires_context |-> TRUE,
           required_tools |-> { ToolTypeAttr("VECTOR_SEARCH"),
                                ToolTypeAttr("PARQUET_QUERY") } ]
    ELSE [ query_type |-> "general_hockey", complexity |-> "simple",
           requires_context |-> FALSE, required_tools |-> {} ]

\* The backends, the same for both calls.  route is what follows the router:
\* the code's _route_decision, or the path map applied to one label.
PairBackends ==
    [ route : {"_route_decision"} \cup DOMAIN RouterPaths,
      index_available : BOOLEAN,
      mcp : {"results"},
      libs_available : {TRUE},
      client : ClientOutcomes,
      search : { [raises |-> FALSE, results |-> << "clip" >>] } ]

\* The generation backend: what it returns can differ from call to call
PairGens ==
    { gen \in GenOutcomes :
        \/ gen.primary = "ok" /\ gen.secondary = "unavailable"
        \/ gen.primary = "unconfigured" /\ gen.secondary \in {"fail", "text"} }

\* One call, on its own: the position of the driver, the node to run, the
\* state, what was returned, the exception that left the graph
IdleCall ==
    [ pc |-> "idle", node |-> "none", state |-> IdleState, result |-> << >>,
      raised |-> None ]

\* A node has run in call c with outcome r
Moved(c, r, next) ==
    [c EXCEPT !.state = r.state, !.raised = r.raised,
              !.node = IF r.raised = None THEN next ELSE "aborted"]

\* process_query, one step of one call: the configurations it can lead to
CallSteps(c, in, env) ==
    IF c.pc = "idle"
    THEN { [c EXCEPT !.pc = "running", !.node = EntryPoint,
                     !.state = create_initial_state(in.user_context, in.query, None)] }
    ELSE IF c.pc # "running" THEN {}
    ELSE CASE c.node = "intent_analysis" ->
                { Moved(c, Returned(IntentAnalyzerProcess(
                               c.state, Classify(in.query, in.user_context))),
                        "router") }
           [] c.node = "router" ->
                LET s1 == RouterNodeProcess(c.state)
                    d  == IF env.route = "_route_decision" THEN RouteDecision(s1)
                          ELSE env.route
                IN  { IF d \in DOMAIN RouterPaths
                      THEN Moved(c, Returned(s1), RouterPaths[d])
                      ELSE Moved(c, Raised(s1, d), "aborted") }
           [] c.node = "pinecone_retrieval" ->
                LET r == PineconeProcess(c.state, env.index_available, env.mcp)
                IN  { Moved(c, r, AfterPineconePaths[AfterPineconeDecision(r.state)]) }
           [] c.node = "parquet_analysis" ->
                { Moved(c, ParquetProcess(c.state, env.libs_available, env.client),
                        "response_synthesis") }
           [] c.node = "clip_retrieval" ->
                LET r == ClipProcess(c.state, env.search)
                IN  { Moved(c, r, AfterClipPaths[AfterClipDecision(r.state)]) }
           [] c.node = "response_synthesis" ->
                { Moved(c, ResponseSynthesizerProcess(c.state, gen, order), "END") :
                    gen \in PairGens,
                    order \in SetOrders(Elems(c.state.evidence_chain)) }
           [] c.node = "END" ->
                { [c EXCEPT !.pc = "returned",
                            !.result = << ProcessQueryResponse(c.state) >>] }
           [] c.node = "aborted" ->
                { [c EXCEPT !.pc = "returned",
                            !.result = << ProcessQueryExcept(c.raised) >>] }

\* Call i as the interleaved run has it
CallConfig(i) ==
    [ pc |-> pc[i], node |-> node[i],
      state |-> Deref(state.calls[i], state.lists),
      result |-> result[i], raised |-> decision[i] ]

InitPair ==
    /\ pc = [ i \in Calls |-> "idle" ]
    /\ node = [ i \in Calls |-> "none" ]
    /\ state = [ calls |-> [ i \in Calls |-> Naming(IdleState, NewLists(i)) ],
                 lists |-> [ o \in ListObjects |-> << >> ] ]
    /\ result = [ i \in Calls |-> << >> ]
    /\ decision = [ i \in Calls |-> None ]
    /\ \E ins \in [ Calls -> PairInputs ], env \in PairBackends :
          call = [ inputs |-> ins, backends |-> env ]
    /\ last = NoNode(IdleState)
    /\ visits = NoVisits

\* Call i takes its next step.  The lists its state names take the contents
\* the step left; every other list object is as it was.
Advance(i) ==
    \E nxt \in CallSteps(CallConfig(i), call.inputs[i], call.backends) :
        LET names == IF pc[i] = "idle" THEN NewLists(i)
                     ELSE [ f \in ListFields |-> state.calls[i][f] ]
        IN  /\ state' =
                  [ calls |-> [state.calls EXCEPT ![i] = Naming(nxt.state, names)],
                    lists |-> [ o \in ListObjects |->
                                  IF \E f \in ListFields : names[f] = o
                                  THEN nxt.state[CHOOSE f \in ListFields : names[f] = o]
                                  ELSE state.lists[o] ] ]
            /\ pc' = [pc EXCEPT ![i] = nxt.pc]
            /\ node' = [node EXCEPT ![i] = nxt.node]
            /\ result' = [result EXCEPT ![i] = nxt.result]
            /\ decision' = [decision EXCEPT ![i] = nxt.raised]
            /\ UNCHANGED <<last, call, visits>>

\* process_query, lines 134-143, in one of the calls
PairProcessQuery ==
    \E i \in Calls : pc[i] = "idle" /\ Advance(i)

\* one node of the graph and the edge after it, in one of the calls
PairNode ==
    \E i \in Calls : pc[i] = "running" /\ node[i] \in GraphNodes /\ Advance(i)

\* process_query, lines 149-179, in one of the calls
PairReturn ==
    \E i \in Calls : pc[i] = "running" /\ node[i] \in {"END", "aborted"} /\ Advance(i)

NextPair ==
    \/ PairProcessQuery
    \/ PairNode
    \/ PairReturn

SpecPair == InitPair /\ [][NextPair]_vars

----------------------------------------------------------------------------
(* SpecText: _post_process_response on strings.  A string is the sequence   *)
(* of its characters; lengths are scaled down: the configured maximum is 4  *)
(* characters instead of 2000.  In SpecText call holds the arguments of     *)
(* the function and result the string it returned.                          *)

\* longest generated text
MaxTextLen == 6

\* settings.orchestration.max_response_length
max_response_length == 4

\* the characters of a generated text
TextChars == { "x", " ", "[", "a", "]" }

\* the generated texts
Texts == UNION { [1..n -> TextChars] : n \in 0..MaxTextLen }

\* evidence_chain: citations "[a]" and "[b]"
EvidenceLists ==
    { << >>, << <<"[", "a", "]">> >>, << <<"[", "a", "]">>, <<"[", "b", "]">> >> }

\* "..."
TruncationMarker == << ".", ".", "." >>

Whitespace == { " ", "\n" }

\* str.strip()
Strip(text) ==
    LET inked == { i \in 1..Len(text) : text[i] \notin Whitespace }
    IN  IF inked = {} THEN << >>
        ELSE SubSeq(text, CHOOSE i \in inked : \A j \in inked : i <= j,
                          CHOOSE i \in inked : \A j \in inked : i >= j)

\* `cite in response`
Contains(text, cite) ==
    \E i \in 1..(Len(text) - Len(cite) + 1) : SubSeq(text, i, i + Len(cite) - 1) = cite

RECURSIVE Join(_)
\* ', '.join(...)
Join(strings) ==
    IF strings = << >> THEN << >>
    ELSE IF Len(strings) = 1 THEN strings[1]
    ELSE strings[1] \o << ",", " " >> \o Join(Tail(strings))

\* f"\n\nSources: {', '.join(set(citations))}", the set iterated in `order`
SourcesLine(order) ==
    << "\n", "\n", "S", "o", "u", "r", "c", "e", "s", ":", " " >> \o Join(order)

\* variant: the text is not cut
PostProcessResponseTextUncut(response, citations, order) ==
    LET cited == IF /\ RequireCitations
                    /\ citations # << >>
                    /\ ~ \E i \in 1..Len(citations) : Contains(response, citations[i])
                 THEN response \o SourcesLine(order)
                 ELSE response
    IN  Strip(cited)

\* _post_process_response: the text cut to max_response_length and marked,
\* then the Sources line when citations are required, there are some and
\* none occurs in the text, then strip()
PostProcessResponseText(response, citations, order) ==
    LET cut   == IF Len(response) > max_response_length
                 THEN SubSeq(response, 1, max_response_length) \o TruncationMarker
                 ELSE response
        cited == IF /\ RequireCitations
                    /\ citations # << >>
                    /\ ~ \E i \in 1..Len(citations) : Contains(cut, citations[i])
                 THEN cut \o SourcesLine(order)
                 ELSE cut
    IN  Strip(cited)

InitText ==
    /\ pc = "generated"
    /\ call \in [ response : Texts, citations : EvidenceLists ]
    /\ result = << >>
    /\ node = "response_synthesis"
    /\ state = IdleState
    /\ last = NoNode(IdleState)
    /\ decision = "none"
    /\ visits = NoVisits

\* ResponseSynthesizerNode.process, lines 111-113: the generated text is
\* post-processed
PostProcess ==
    /\ pc = "generated"
    /\ \E order \in SetOrders(Elems(call.citations)) :
         result' = << PostProcessResponseText(call.response, call.citations, order) >>
    /\ pc' = "post_processed"
    /\ UNCHANGED <<node, state, last, call, decision, visits>>

NextText == PostProcess

SpecText == InitText /\ [][NextText]_vars

----------------------------------------------------------------------------
(* The claims *)

\* The spec's vocabulary.  MediaRetrieval has no counterpart among the
\* members of ToolType.
VectorSearch   == "vector_search"
MediaRetrieval == "clip_retrieval"
DataTools      == { "parquet_query", "calculate_metrics", "matchup_analysis" }

\* The spec's name of each routing label
StepName ==
    [ clips_and_data |-> "MediaThenData", clips |-> "MediaOnly",
      both |-> "KnowledgeThenData", pinecone |-> "KnowledgeOnly",
      parquet |-> "DataOnly", synthesis |-> "Synthesis" ]

\* The priority table of the spec's Router section
TableRoute(rt) ==
    IF MediaRetrieval \in rt /\ (VectorSearch \in rt \/ rt \cap DataTools # {})
    THEN "MediaThenData"
    ELSE IF MediaRetrieval \in rt THEN "MediaOnly"
    ELSE IF VectorSearch \in rt /\ rt \cap DataTools # {} THEN "KnowledgeThenData"
    ELSE IF VectorSearch \in rt THEN "KnowledgeOnly"
    ELSE IF rt \cap DataTools # {} THEN "DataOnly"
    ELSE "Synthesis"

\* The ToolResults the last node execution appended
Appended ==
    SubSeq(state.tool_results, Len(last.before.tool_results) + 1, Len(state.tool_results))

AppendedFailure == \E i \in 1..Len(Appended) : ~Appended[i].success

\* C1: whenever _route_decision has been applied to a state, what it
\* returned is the label the priority table gives for the state's
\* required_tools.
C1_RouteFollowsTable ==
    call = "_route_decision" =>
        /\ decision \in DOMAIN StepName
        /\ StepName[decision] = TableRoute(state.required_tools)

\* C2: whenever _after_clip_decision has been applied to a state, it returned
\* DataOnly if a data tool is required, otherwise KnowledgeOnly if VectorSearch
\* is required, otherwise Synthesis.
C2_AfterMediaDecision ==
    call = "_after_clip_decision" =>
        /\ decision \in DOMAIN StepName
        /\ StepName[decision] =
             IF state.required_tools \cap DataTools # {} THEN "DataOnly"
             ELSE IF VectorSearch \in state.required_tools THEN "KnowledgeOnly"
             ELSE "Synthesis"

C2_Witness ==
    /\ call = "_after_clip_decision"
    /\ state.required_tools = { VectorSearch, "visualization" }
    /\ decision = "pinecone"

\* C3: whenever _after_pinecone_decision has been applied to a state, it
\* returned DataOnly if a data tool is required and Synthesis otherwise.
C3_AfterKnowledgeDecision ==
    call = "_after_pinecone_decision" =>
        /\ decision \in DOMAIN StepName
        /\ StepName[decision] =
             IF state.required_tools \cap DataTools # {} THEN "DataOnly" ELSE "Synthesis"

C3_Witness ==
    /\ call = "_after_pinecone_decision"
    /\ state.required_tools = { VectorSearch, "matchup_analysis" }
    /\ decision = "parquet"

\* C4: on every walk over the edges of the graph from the entry point, no
\* node is entered twice, and END is entered from response_synthesis only.
C4_AcyclicEndAfterSynthesis ==
    /\ \A n \in DOMAIN visits : visits[n] <= 1
    /\ node = "END" => last.node = "response_synthesis"

C4_Witness ==
    /\ node = "END"
    /\ visits["clip_retrieval"] = 1
    /\ visits["pinecone_retrieval"] = 1
    /\ visits["response_synthesis"] = 1

\* C5: every call of process_query hands its caller one result, and no more
\* than one: eventually the call has returned with exactly one result.
C5_AlwaysOneResult ==
    /\ [](Len(result) <= 1)
    /\ <>(pc = "returned" /\ Len(result) = 1)

C5_Witness ==
    /\ pc = "returned" /\ Len(result) = 1
    /\ result[1].kind = "response"
    /\ \E i \in 1..Len(state.tool_results) : ~state.tool_results[i].success

\* C6: process_query does not raise: when an exception has left a step, the
\* call ends returned, with the failure dict: success false, the apology text.
C6_ExceptionBecomesFailure ==
    /\ pc # "raised"
    /\ (pc = "returned" /\ last.outcome = "raised") =>
          /\ Len(result) = 1
          /\ result[1].kind = "failure"
          /\ result[1].success = << FALSE >>
          /\ result[1].response = ApologyText

C6_Witness ==
    /\ pc = "returned"
    /\ last.node = "router" /\ last.raised = AttributeError
    /\ result[1].success = << FALSE >>

\* C7: no execution of a tool node ends with an exception leaving the node.
C7_ToolNodeNeverRaises ==
    last.node \in ToolNodes => last.outcome = "returned"

\* C8: when the backend call of pinecone_retrieval or of parquet_analysis
\* failed, the node appended exactly one ToolResult, with success false and an
\* error description.  (clip_retrieval appends none: C7.)
C8_BackendFailureGivesFailedResult ==
    (last.node \in { "pinecone_retrieval", "parquet_analysis" } /\ last.backend = "failed") =>
        /\ Len(Appended) = 1
        /\ ~Appended[1].success
        /\ Appended[1].error # None

\* C9: when the last execution of a tool node appended a ToolResult with
\* success false, the evidence list and the payload slots are as they were
\* before that execution.
C9_FailureLeavesEvidenceAndSlots ==
    (last.node \in ToolNodes /\ AppendedFailure) =>
        /\ state.evidence_chain = last.before.evidence_chain
        /\ state.retrieved_context = last.before.retrieved_context
        /\ state.analytics_data = last.before.analytics_data

C9_Witness ==
    /\ last.node = "parquet_analysis" /\ AppendedFailure
    /\ last.before.retrieved_context # << >>
    /\ last.before.evidence_chain # << >>

\* C10: after a tool node has appended a ToolResult with success false, the
\* call is still running and the next node is the one fixed by the node that
\* ran and required_tools alone: after pinecone_retrieval, parquet_analysis
\* if a data tool is required and response_synthesis otherwise; after
\* parquet_analysis, response_synthesis; after clip_retrieval, as in C2.
C10_FailureDoesNotChangeNextStep ==
    (last.node \in ToolNodes /\ AppendedFailure) =>
        /\ pc = "running"
        /\ state.required_tools = last.before.required_tools
        /\ node =
             CASE last.node = "pinecone_retrieval" ->
                    IF state.required_tools \cap DataTools # {}
                    THEN "parquet_analysis" ELSE "response_synthesis"
               [] last.node = "parquet_analysis" -> "response_synthesis"
               [] last.node = "clip_retrieval" ->
                    IF state.required_tools \cap DataTools # {} THEN "parquet_analysis"
                    ELSE IF VectorSearch \in state.required_tools THEN "pinecone_retrieval"
                    ELSE "response_synthesis"

C10_Witness ==
    /\ last.node = "pinecone_retrieval" /\ AppendedFailure
    /\ node = "parquet_analysis"
    /\ pc = "running"

\* The media results of a state: the list under analytics_data["clips"]
MediaResults(s) ==
    IF s.analytics_data.clips = << >> THEN << >> ELSE s.analytics_data.clips[1]

\* C11: in every state, has_required_data is false exactly when every
\* ToolResult has success false and the retrieved context, the analytics
\* payload and the media results are all empty.
C11_SufficientContext ==
    ~has_required_data(state) <=>
        /\ \A i \in 1..Len(state.tool_results) : ~state.tool_results[i].success
        /\ state.retrieved_context = << >>
        /\ state.analytics_data.payload = "empty"
        /\ MediaResults(state) = << >>

C11_Witness ==
    /\ node = "response_synthesis"
    /\ Len(state.tool_results) = 2
    /\ ~has_required_data(state)

\* C12: when response synthesis ran on a state without the required data, no
\* generation tier was called, the final response is the insufficient-data
\* text, and error_messages is as it was.
C12_InsufficientDataSkipsGeneration ==
    (last.node = "response_synthesis" /\ ~has_required_data(last.before)) =>
        /\ last.calls = << >>
        /\ state.final_response = InsufficientDataText
        /\ state.error_messages = last.before.error_messages

C12_Witness ==
    /\ last.node = "response_synthesis"
    /\ ~has_required_data(last.before)
    /\ state.final_response = InsufficientDataText
    /\ last.before.error_messages # << >>

\* The place of a tier in the chain
Rank(tier) == CASE tier = "primary" -> 1 [] tier = "secondary" -> 2 [] tier = "template" -> 3

CalledTiers == { last.calls[i].tier : i \in 1..Len(last.calls) }

\* C13, as stated: a tier after the first is called only right after the
\* tier before it in the chain was called and raised; the tier called last
\* returned, and its text is the response.
C13_TierOnlyAfterPreviousRaised ==
    last.node = "response_synthesis" =>
        /\ \A i \in 1..Len(last.calls) :
              Rank(last.calls[i].tier) > 1 =>
                 /\ i > 1
                 /\ Rank(last.calls[i-1].tier) = Rank(last.calls[i].tier) - 1
                 /\ last.calls[i-1].raised
        /\ last.calls # << >> =>
              /\ ~last.calls[Len(last.calls)].raised
              /\ last.calls[Len(last.calls)].text # None =>
                    state.final_response.body = last.calls[Len(last.calls)].text

\* C13, amended: the tiers are called in the order of the chain, none twice;
\* every call but the last raised and the last returned; a tier that was
\* passed over is one that is not configured; a synthesis with the required
\* data calls some tier, and the text of the last call is the response.
C13_TiersInOrderSkippingUnconfigured ==
    last.node = "response_synthesis" =>
        /\ \A i \in 2..Len(last.calls) :
              /\ Rank(last.calls[i-1].tier) < Rank(last.calls[i].tier)
              /\ last.calls[i-1].raised
        /\ has_required_data(last.before) <=> last.calls # << >>
        /\ last.calls # << >> =>
              /\ ~last.calls[Len(last.calls)].raised
              /\ "primary" \notin CalledTiers => last.gen.primary = "unconfigured"
              /\ ("secondary" \notin CalledTiers /\ "template" \in CalledTiers) =>
                    last.gen.secondary = "unavailable"
              /\ last.calls[Len(last.calls)].text # None =>
                    state.final_response.body = last.calls[Len(last.calls)].text

C13_Witness ==
    /\ last.node = "response_synthesis"
    /\ Len(last.calls) = 2
    /\ last.calls[1].tier = "secondary" /\ last.calls[1].raised
    /\ last.calls[2].tier = "template"
    /\ state.final_response.body = "template"

\* C14: response synthesis returns, and leaves a final response that is not
\* blank; when the text the tiers supplied is None, post-processing raises and
\* the final response is the fallback text.
C14_SynthesisAlwaysAnswers ==
    last.node = "response_synthesis" =>
        /\ last.outcome = "returned"
        /\ NonBlank(state.final_response)
        /\ (last.calls # << >> /\ last.calls[Len(last.calls)].text = None) =>
              state.final_response = FallbackResponseText

C14_Witness ==
    /\ last.node = "response_synthesis"
    /\ last.calls # << >>
    /\ last.calls[Len(last.calls)].text = ""
    /\ state.final_response.body = ""
    /\ NonBlank(state.final_response)

\* A list without its repetitions, each element at its first place
RECURSIVE FirstSeen(_)
FirstSeen(seq) ==
    IF seq = << >> THEN << >>
    ELSE LET front == FirstSeen(SubSeq(seq, 1, Len(seq) - 1))
             x == seq[Len(seq)]
         IN  IF x \in Elems(front) THEN front ELSE Append(front, x)

\* C15: when response synthesis post-processed a generated text, the final
\* response has a Sources line exactly when citations are required, the
\* evidence list is not empty and the text quotes none of it, and the line
\* lists the distinct evidence strings in the order of first occurrence.
C15_SourcesLineFirstSeenOrder ==
    (/\ last.node = "response_synthesis"
     /\ last.calls # << >>
     /\ last.calls[Len(last.calls)].text # None) =>
        state.final_response.sources =
            IF /\ RequireCitations
               /\ last.before.evidence_chain # << >>
               /\ last.calls[Len(last.calls)].text # "citing"
            THEN FirstSeen(last.before.evidence_chain)
            ELSE << >>

IsPrefix(a, b) == Len(a) <= Len(b) /\ SubSeq(b, 1, Len(a)) = a

\* The citations of the successful results of a list of ToolResults, in order
RECURSIVE Citations(_)
Citations(results) ==
    IF results = << >> THEN << >>
    ELSE Citations(SubSeq(results, 1, Len(results) - 1))
         \o (IF results[Len(results)].success
             THEN results[Len(results)].citations ELSE << >>)

\* The ToolResults the tool nodes appended: all but the one response
\* synthesis appends
ToolNodeResults ==
    IF visits["response_synthesis"] > 0
    THEN SubSeq(state.tool_results, 1, Len(state.tool_results) - 1)
    ELSE state.tool_results

\* C16: the evidence list every node execution leaves has the list it was
\* given as a prefix, and in every state the evidence list is the
\* concatenation of the citation lists of the successful tool calls, in the
\* order of their execution.
C16_EvidenceIsToolCitations ==
    /\ IsPrefix(last.before.evidence_chain, state.evidence_chain)
    /\ state.evidence_chain = Citations(ToolNodeResults)

\* C17: every node execution after intent_analysis leaves required_tools as
\* it was given.
C17_RequiredToolsFixed ==
    last.node \notin { "none", "intent_analysis" } =>
        state.required_tools = last.before.required_tools

C17_Witness ==
    /\ node = "END"
    /\ state.required_tools = { "vector_search", "parquet_query" }
    /\ Len(state.tool_results) = 3

\* The requester's own name, as the permission filter writes it
OwnName == StrTitle(state.user_context.name)

\* C18: for a Player and a query that names nobody, the player_names of the
\* request sent to the index is the requester's own name and nothing else.
C18_PlayerDefaultsToOwnClips ==
    (/\ call = "_apply_user_permissions"
     /\ state.user_context.role = "player"
     /\ state.original_query.mentions = { }) =>
        decision.filtered = { OwnName }

\* C19: for a Player and a query that names somebody else, the player_names of
\* the request sent to the index is not empty and holds no name but the
\* requester's; and the rows the player analysis gets are the requester's own.
C19_PlayerNeverSeesOthers ==
    /\ (/\ call = "_apply_user_permissions"
        /\ state.user_context.role = "player"
        /\ \E name \in decision.requested : StrLower(name) # StrLower(OwnName)) =>
           /\ decision.filtered # { }
           /\ \A name \in decision.filtered : StrLower(name) = StrLower(OwnName)
    /\ (/\ call = "_analyze_player_performance"
        /\ state.user_context.role = "player"
        /\ state.original_query.mentions # { }) =>
           \A o \in decision.rows : StrLower(o) = StrLower(OwnName)

\* C20: staff roles are granted every clip and their request is left as it
\* was; a Player is granted a clip exactly when its owner is the requester;
\* and the clips a request returns are the clips _user_can_access_clip grants:
\* none that it denies, and, for a query that names nobody, all that it grants.
C20_FilterAgreesWithPredicate ==
    /\ (call = "_apply_user_permissions" /\ state.user_context.role # "player") =>
          decision.filtered = decision.requested
    /\ call = "_user_can_access_clip" =>
          /\ state.user_context.role # "player" => decision.granted
          /\ state.user_context.role = "player" =>
                (decision.granted <=> StrLower(decision.owner) = StrLower(OwnName))
          /\ decision.returned => decision.granted
          /\ (decision.requested = { } /\ decision.granted) => decision.returned


StructuredQuery == "parquet_query"

\* The citations the successful tool results of one tool type carry
CitationsOf(tool_type) ==
    UNION { Elems(ToolNodeResults[i].citations) :
              i \in { j \in 1..Len(ToolNodeResults) :
                        /\ ToolNodeResults[j].success
                        /\ ToolNodeResults[j].tool_type = tool_type } }

\* C21: for required_tools = {VectorSearch, StructuredQuery} the route
\* _route_decision returns is KnowledgeThenData, and in the evidence list of
\* the finished run no analytics citation stands before a knowledge citation.
C21_KnowledgeThenData ==
    state.required_tools = { VectorSearch, StructuredQuery } =>
        /\ (last.node = "router" /\ call = "_route_decision") =>
               /\ decision \in DOMAIN StepName
               /\ StepName[decision] = "KnowledgeThenData"
        /\ node = "END" =>
               \A i, j \in 1..Len(state.evidence_chain) :
                   (/\ state.evidence_chain[i] \in CitationsOf(StructuredQuery)
                    /\ state.evidence_chain[j] \in CitationsOf(VectorSearch))
                   => j < i

\* C22: when the media step runs in a workflow that requires StructuredQuery
\* (the route MediaThenData), it returns, the decision after it is DataOnly,
\* and the evidence list of the finished run holds the citations of every
\* successful tool result, the media step's and the analytics step's.
C22_MediaThenData ==
    /\ (/\ last.node = "clip_retrieval"
        /\ StructuredQuery \in last.before.required_tools) =>
           /\ last.outcome = "returned"
           /\ call = "_after_clip_decision"
           /\ decision \in DOMAIN StepName
           /\ StepName[decision] = "DataOnly"
    /\ (/\ node = "END"
        /\ visits["clip_retrieval"] > 0
        /\ StructuredQuery \in state.required_tools) =>
           /\ visits["parquet_analysis"] > 0
           /\ \A i \in 1..Len(ToolNodeResults) :
                  ToolNodeResults[i].success =>
                      Elems(ToolNodeResults[i].citations)
                          \subseteq Elems(state.evidence_chain)

\* C23: once the tool timeout has passed on a knowledge retrieval whose
\* backend never answers, the node has completed with one failed ToolResult
\* whose error names the timeout, and the workflow stands at the step
\* _after_pinecone_decision gives: parquet_analysis when a data tool is
\* required, response_synthesis otherwise.
C23_KnowledgeTimeoutIsFailure ==
    (last.node = "pinecone_retrieval" /\ last.backend = "hangs") =>
        /\ last.outcome = "returned"
        /\ pc = "running"
        /\ Len(Appended) = 1
        /\ ~Appended[1].success
        /\ Appended[1].error = "TimeoutError"
        /\ state.retrieved_context = last.before.retrieved_context
        /\ node = IF NeedsParquet(state.required_tools)
                  THEN "parquet_analysis" ELSE "response_synthesis"

\* C24: with required_tools empty, the route _route_decision returns is
\* Synthesis; and a run that went from the router to response synthesis and
\* has returned holds no ToolResult, in its final state and in the returned
\* result, found its context insufficient, and answers with the fixed
\* insufficient-data message.
C24_EmptyToolsGoToSynthesis ==
    state.required_tools = {} =>
        /\ (last.node = "router" /\ call = "_route_decision") =>
               /\ decision \in DOMAIN StepName
               /\ StepName[decision] = "Synthesis"
               /\ node = "response_synthesis"
        /\ (/\ pc = "returned"
            /\ visits["response_synthesis"] > 0
            /\ \A n \in ToolNodes : visits[n] = 0) =>
               /\ ~has_required_data(last.before)
               /\ state.tool_results = << >>
               /\ result[1].tool_results = << >>
               /\ result[1].response = InsufficientDataText

\* C25: for a player-analysis query of an Analyst with required_tools =
\* {StructuredQuery}, the route _route_decision returns is DataOnly; and the
\* run, once it has returned with the data store having answered the
\* analytics step, has at least one citation in its evidence list and a
\* result that counts as a success (callers read a result without the flag as
\* one: result.get('success', True)).
C25_DataOnlyScenario ==
    (/\ state.required_tools = { StructuredQuery }
     /\ state.query_type = "player_analysis"
     /\ state.user_context.role = "analyst") =>
        /\ (last.node = "router" /\ call = "_route_decision") =>
               /\ decision \in DOMAIN StepName
               /\ StepName[decision] = "DataOnly"
        /\ (/\ pc = "returned"
            /\ visits["pinecone_retrieval"] = 0
            /\ visits["clip_retrieval"] = 0
            /\ result[1].kind = "response" => visits["parquet_analysis"] > 0
            /\ visits["parquet_analysis"] > 0 =>
                   state.analytics_data.payload = "real_nhl_player_stats") =>
               /\ Get(result[1].success, TRUE)
               /\ result[1].evidence_chain # << >>

\* The configurations a call reaches when it runs alone
RECURSIVE SoloReachFrom(_, _, _)
SoloReachFrom(S, in, env) ==
    LET T == S \cup UNION { CallSteps(c, in, env) : c \in S }
    IN  IF T = S THEN S ELSE SoloReachFrom(T, in, env)

\* C26: at every point of every interleaving of two calls, each call is in a
\* configuration (position, state with its tool results, evidence list,
\* payload slots and answer, and returned result) that it reaches when it
\* runs alone on the same arguments against the same backends.
C26_InterleavedCallsAreIsolated ==
    \A i \in Calls :
        CallConfig(i) \in SoloReachFrom({IdleCall}, call.inputs[i], call.backends)

C26_Witness ==
    /\ pc[1] = "running" /\ node[1] = "response_synthesis"
    /\ pc[2] = "running" /\ node[2] = "parquet_analysis"
    /\ call.inputs[1].query = "hello"
    /\ call.inputs[2].query = "suzuki stats"
    /\ Len(state.lists[state.calls[1].tool_results]) = 1
    /\ Len(state.lists[state.calls[2].tool_results]) = 1
    /\ state.lists[state.calls[1].evidence_chain] # << >>

\* The tool identifiers of the per-tool summaries of a returned result
ToolIdentifiers(r) ==
    [ k \in 1..Len(r.tool_results) |-> r.tool_results[k].tool_type ]

C28_CancelledCallReturnsNothing ==
    last.raised = "CancelledError" =>
        /\ last.outcome = "cancelled"
        /\ last.node \in AwaitingNodes
        /\ pc = "cancelled"
        /\ node = "none"
        /\ state = IdleState
        /\ result = << >>

C28_Witness ==
    /\ pc = "cancelled"
    /\ last.node = "parquet_analysis"
    /\ last.before.evidence_chain # << >>
    /\ Len(last.before.tool_results) = 1
    /\ result = << >>

\* C29: when the query deadline passed while a tool step was awaited, before
\* response synthesis, and the call has returned its response, the response
\* is the one of insufficient context: no generation tier was called and the
\* answer is the insufficient-data message.
C29_DeadlineGivesInsufficientDataResult ==
    (/\ pc = "returned"
     /\ last.deadline \in ToolNodes
     /\ result[1].kind = "response") =>
        /\ last.calls = << >>
        /\ result[1].response = InsufficientDataText

\* C30: every node execution leaves the step counter greater than it found
\* it; and whatever maximum from 1 to the default is configured, no node is
\* executed on a state whose counter exceeds it.
C30_StepCounterGuard ==
    last.node \in GraphNodes =>
        /\ state.iteration_count > last.before.iteration_count
        /\ \A m \in 1..max_iterations : last.before.iteration_count <= m

\* The synthesis that ran last could take its text from neither the primary
\* nor the secondary tier, the secondary having raised, and the run has
\* returned.  (The primary tier as it is written returns a fixed text and
\* cannot raise; it delivers nothing when no endpoint is configured.)
BothTiersFailed ==
    /\ pc = "returned"
    /\ last.node = "response_synthesis"
    /\ last.gen.primary \in {"unconfigured", "fail"}
    /\ last.gen.secondary = "fail"

SynthesisResult == state.tool_results[Len(state.tool_results)]

ExecutedToolIdentifiers ==
    (IF visits["clip_retrieval"] > 0 THEN << MediaRetrieval >> ELSE << >>)
    \o (IF visits["pinecone_retrieval"] > 0 THEN << VectorSearch >> ELSE << >>)
    \o (IF visits["parquet_analysis"] > 0 THEN << StructuredQuery >> ELSE << >>)

\* C32: when the graph has reached END, the ToolResult list of the state has
\* one entry for each tool node that ran, in execution order, labelled with
\* that node's tool; and the tool summaries of the returned response are
\* labelled the same way.
C32_OneResultPerToolInvocation ==
    /\ node = "END" =>
           [ k \in 1..Len(state.tool_results) |-> state.tool_results[k].tool_type ]
               = ExecutedToolIdentifiers
    /\ (pc = "returned" /\ result[1].kind = "response") =>
           ToolIdentifiers(result[1]) = ExecutedToolIdentifiers

\* The tool node of each category a required-tool set asks for
RequiredNodes(rt) ==
    (IF MediaRetrieval \in rt THEN { "clip_retrieval" } ELSE { })
    \cup (IF VectorSearch \in rt THEN { "pinecone_retrieval" } ELSE { })
    \cup (IF rt \cap DataTools # {} THEN { "parquet_analysis" } ELSE { })

\* C33: when a call whose route was decided by _route_decision has returned,
\* every tool node whose category is required has run exactly once and no
\* other tool node has run.
C33_RequiredNodesRunOnce ==
    (pc = "returned" /\ call = "_route_decision") =>
        \A n \in ToolNodes :
            visits[n] = IF n \in RequiredNodes(state.required_tools) THEN 1 ELSE 0

\* C34: response synthesis leaves the evidence list as it was given it, and
\* the evidence list of the returned response is that list: the citations of
\* the successful results of the tool nodes that ran, in order.
C34_SynthesisKeepsEvidence ==
    last.node = "response_synthesis" =>
        /\ state.evidence_chain = last.before.evidence_chain
        /\ (pc = "returned" /\ result[1].kind = "response") =>
               /\ result[1].evidence_chain = last.before.evidence_chain
               /\ result[1].evidence_chain = Citations(last.before.tool_results)

\* The payload slots a node leaves alone: Knowledge Retrieval owns the
\* retrieved context, Structured Analytics the analytics payload, Media
\* Retrieval the clips
OtherSlots(n, s) ==
    CASE n = "pinecone_retrieval" -> << s.analytics_data.payload, s.analytics_data.clips >>
      [] n = "parquet_analysis"   -> << s.retrieved_context, s.analytics_data.clips >>
      [] n = "clip_retrieval"     -> << s.retrieved_context, s.analytics_data.payload >>
      [] OTHER -> << s.retrieved_context, s.analytics_data.payload, s.analytics_data.clips >>

RelevantIds(results) ==
    { results[i].id : i \in { j \in 1..Len(results) :
                                results[j].relevance_score >= ScoreThreshold } }

\* C36: when the vector store returned a list, the retrieved context holds
\* exactly the results of that list whose relevance is at or above the
\* threshold, by descending relevance: none of them is discarded.
C36_ContextKeepsRelevantResults ==
    (last.node = "pinecone_retrieval" /\ last.backend = "ok") =>
        LET returned == SearchContextMcp(last.before.intent_analysis, "results")
            context  == state.retrieved_context
        IN  /\ { context[i].id : i \in 1..Len(context) } = RelevantIds(returned)
            /\ Len(context) = Cardinality(RelevantIds(returned))
            /\ \A i, j \in 1..Len(context) :
                   i < j => context[i].relevance_score >= context[j].relevance_score

\* The analysis_type of the payload of the routine _execute_analytics maps a
\* query type to, when the routine has its data
RoutinePayload(query_type) ==
    CASE query_type = "player_analysis"    -> "real_nhl_player_stats"
      [] query_type = "team_performance"   -> "team_performance"
      [] query_type = "game_analysis"      -> "game_analysis"
      [] query_type = "matchup_comparison" -> "matchup_analysis"
      [] query_type = "statistical_query"  -> "statistical_query"
      [] OTHER                             -> "general_analytics"

\* C37: for every query type of the intent, Structured Analytics with its
\* libraries and data at hand stores the payload of the routine mapped to the
\* type in the analytics slot, appends a successful ToolResult, and adds
\* exactly one citation to the evidence list.
C37_RoutinePayloadAttached ==
    (last.node = "parquet_analysis" /\ last.backend = "ok") =>
        LET appended == state.tool_results[Len(state.tool_results)]
        IN  /\ state.analytics_data.payload =
                   RoutinePayload(last.before.intent_analysis.query_type)
            /\ Len(state.tool_results) = Len(last.before.tool_results) + 1
            /\ appended.tool_type = StructuredQuery
            /\ appended.success
            /\ Len(state.evidence_chain) = Len(last.before.evidence_chain) + 1

\* A payload that holds nothing but an "error" entry, or nothing at all
ErrorPayloads == { "error", "empty" }

CutText(response) ==
    IF Len(response) > max_response_length
    THEN SubSeq(response, 1, max_response_length) \o TruncationMarker
    ELSE response

IsSuffix(a, b) == Len(a) <= Len(b) /\ SubSeq(b, Len(b) - Len(a) + 1, Len(b)) = a

\* C39 as stated: the answer of post-processing begins with the text cut to
\* the maximum and marked when the text was longer than the maximum, with the
\* text itself otherwise, and is never longer than the maximum and the marker.
C39_AnswerWithinMaximumAndMarker ==
    pc = "post_processed" =>
        /\ IsPrefix(Strip(CutText(call.response)), result[1])
        /\ Len(result[1]) <= max_response_length + Len(TruncationMarker)

\* C39, amended: the answer begins with the text cut to the maximum and
\* marked when the text was longer than the maximum, with the text itself
\* otherwise; it is never longer than the maximum and the marker, and the
\* Sources line when one was appended.
C39_AnswerWithinMaximumMarkerAndSources ==
    pc = "post_processed" =>
        /\ IsPrefix(Strip(CutText(call.response)), result[1])
        /\ \/ Len(result[1]) <= max_response_length + Len(TruncationMarker)
           \/ \E order \in SetOrders(Elems(call.citations)) :
                 /\ call.citations # << >>
                 /\ IsSuffix(Strip(SourcesLine(order)), result[1])
                 /\ Len(result[1]) <= max_response_length + Len(TruncationMarker)
                                        + Len(SourcesLine(order))

\* A text longer than the maximum was cut and marked, and the Sources line
\* was appended to it
C39_Witness ==
    /\ pc = "post_processed"
    /\ Len(call.response) > max_response_length
    /\ IsPrefix(SubSeq(call.response, 1, max_response_length) \o TruncationMarker,
                result[1])
    /\ Len(result[1]) > max_response_length + Len(TruncationMarker)


====
